---- MODULE Spec2Model ----
(***************************************************************************)
(* Model of the transfer orchestrator of data-cron (src/transfer.py) and   *)
(* of its run ledger (src/scripts/models.py).  Several orchestrator        *)
(* processes are started for the same run (the job is run from cron, or    *)
(* again by hand with another destination) against the same SQLite         *)
(* ledger; each one executes main() step by step, and their steps          *)
(* interleave.  The sync tool, the remote listing and the remote copy are  *)
(* the environment: their results are chosen nondeterministically.  When   *)
(* a process exits its local variables are gone; what remains is its exit  *)
(* code, the ledger and the files it left behind.                          *)
(*                                                                         *)
(* CliSpec models the ledger's command-line tools (src/db_cli.py,          *)
(* src/utils/status.py), SyncSpec the per-file sync script (src/main.py).  *)
(***************************************************************************)
EXTENDS Integers, Sequences, FiniteSets, Bags, TLC

\* ---------------------------------------------------------------- bounds
\* Largest value of --max_retry that is explored.
MaxRetry == 2

\* The orchestrator processes (invocations) that are started.
Procs == {"p1", "p2"}

\* ------------------------------------------------------------ environment
\* Contents of the source directory: the regular files under it, as
\* relative paths.  One tree holds two files of the same name in different
\* directories, the other two files of different names.
SourceTrees == {{<<"a.txt">>, <<"sub", "a.txt">>}, {<<"a.txt">>, <<"c.txt">>}}

\* Files found under the target directory that the sync tool did not put
\* there (an older file, the log or manifest of an earlier invocation).
StrayPaths == {<<"old.log">>}

\* Values of --destination_dir used by the invocations.
Dests == {"/backup", "user@host:/backup"}

\* The destination each invocation is started with: the same one, or (a
\* retry with another --destination_dir) different ones.  The invocations
\* are interchangeable and may run in either order, so of two assignments
\* that are mirror images one is kept.
Destinations ==
    {d \in [Procs -> Dests] :
        d["p1"] = "user@host:/backup" => d["p2"] = "user@host:/backup"}

\* Exit codes the sync tool may return (0 = success, 23 = partial transfer).
RsyncCodes == {0, 23}

\* Whether the tool's output can contain a failure marker: a non-zero exit
\* always prints an "rsync error:" line, a zero exit may or may not.
RsyncMarkers(rc) == IF rc = 0 THEN BOOLEAN ELSE {TRUE}

\* Path(...).name: the last component of a path.
Name(path) == path[Len(path)]

\* transfer.py:280  '"@" in destination_dir and ":" in destination_dir'
IsRemote(dst) == dst = "user@host:/backup"

\* transfer.py:282/286  the target directory is destination_dir / run_ID
ActualTargetDir(dst) ==
    IF dst = "user@host:/backup" THEN "user@host:/backup/Run-001"
                                 ELSE "/backup/Run-001"

NoRun == [status |-> "ABSENT"]
NoPath == <<"none", "none", "none">>
NoRow == [file_name |-> "none", full_path_target_dir |-> "none"]

\* transfer.py:260-262  the log file of an invocation, in event_logs
LocalLogPath(p) == <<"event_logs", "log", p>>

\* transfer.py:298  the temporary manifest path written at insertion
TempMd5Path == <<"event_logs", "temp_md5", "none">>

\* transfer.py:188-191  where create_md5_mapping_file writes the manifest
LocalMd5Path(p, dst) ==
    IF IsRemote(dst) THEN <<"event_logs", "md5", p>>
                     ELSE <<ActualTargetDir(dst), "md5", p>>

\* transfer.py:347, 361  the log's path in the target directory
DestLogPath(p, dst) == <<ActualTargetDir(dst), "log", p>>

\* transfer.py:354, 362  the manifest's path in the target directory
DestMd5Path(p, dst) == <<ActualTargetDir(dst), "md5", p>>

VARIABLES
    run,           \* the row of table run for this run_ID, or NoRun
    file_record,   \* rows of table file_record for this run_ID
    dest_files,    \* dest_files[d]: source paths present under d's target dir
    dirs,          \* directories that exist (event_logs, local target dir)
    artifacts,     \* log and manifest files that exist, by path
    args,          \* the command lines: destination_dir[p] of each
                   \* invocation, and the max_retry they share
    env,           \* what the invocations find: the source tree, whether
                   \* source_dir passes valid_directory, whether the
                   \* destination can be written
    manifest,      \* manifest[p]: rows of the manifest file written by p
    cli,           \* the run table of the command-line tools (db_cli.py,
                   \* utils/status.py), the last operation on it and the
                   \* rows the last status query returned
    sync,          \* the per-file sync script (main.py): source mtimes,
                   \* table synced_files, remote copies, and its last run
    pc,            \* position of each process in main()
    loc,           \* local variables of each running process
    exit_code,     \* process exit code (-1 until the process has exited)
    final_status,  \* the final status a process wrote ("NONE": none)
    overlapped     \* history: some passing status read fell between another
                   \* invocation's passing status read and its PROCESSING write

vars == <<run, file_record, dest_files, dirs, artifacts, args, env, manifest, cli, sync, pc, loc, exit_code,
          final_status, overlapped>>

\* The variables of the transfer orchestrator and its ledger.
main_vars == <<run, file_record, dest_files, dirs, artifacts, args, env, manifest,
               pc, loc, exit_code, final_status, overlapped>>

\* No sync call in progress.
\* transfer.py:53 / 97 / 118  'source_path.rglob("*")' filtered by is_file()
SourcePaths == env.source_files

\* ------------------------------------------- per-file sync script
\* The files of SOURCE_DIR, as paths relative to it, in the order os.walk
\* yields them (the files of a directory before its subdirectories).
SyncOrder == <<"a.txt", "sub/b.txt">>

SyncFiles == {SyncOrder[i] : i \in DOMAIN SyncOrder}

\* Modification times a source file may carry.
Mtimes == {100, 200}

\* No such file, or no row for it.
NoMtime == -1

\* main.py:10-20  an empty table synced_files, nothing at the remote end.
NoSync ==
    [configured |-> TRUE,
     source |-> [f \in SyncFiles |-> NoMtime],
     synced_files |-> [f \in SyncFiles |-> NoMtime],
     remote |-> [f \in SyncFiles |-> NoMtime],
     op |-> "none", to_sync |-> {}, failed |-> {}]

\* -------------------------------------------------- command-line tools
\* Primary keys used with the command-line tools.
RunIds == {"Run-001", "Run-002"}

\* _pop_db.py:12-20  the columns of table run besides run_id.
CliFields == {"transfer_date", "transfer_time", "status", "source_dir",
              "target_dir", "log_path"}

\* db_cli.py:186  strftime("%m/%d/%Y"): the dates the clock can show, as
\* stored text.
Dates == {"12/31/2024", "01/01/2025"}

\* db_cli.py:187  strftime("%H:%M:%S"): the times the clock can show.
Times == {"08:00:00", "17:30:00"}

\* The characters of a stored date or time, separators left out.
Digits(text) ==
    CASE text = "12/31/2024" -> <<1, 2, 3, 1, 2, 0, 2, 4>>
      [] text = "01/01/2025" -> <<0, 1, 0, 1, 2, 0, 2, 5>>
      [] text = "08:00:00" -> <<0, 8, 0, 0, 0, 0>>
      [] text = "17:30:00" -> <<1, 7, 3, 0, 0, 0>>

\* The day a stored date names, as <<year, month, day>>.
Calendar(text) ==
    CASE text = "12/31/2024" -> <<2024, 12, 31>>
      [] text = "01/01/2025" -> <<2025, 1, 1>>

RECURSIVE LexLess(_, _)
\* SQLite's comparison of two TEXT values (BINARY collation): by the first
\* character that differs.
LexLess(a, b) ==
    IF a = <<>> \/ b = <<>> THEN a = <<>> /\ b # <<>>
    ELSE IF Head(a) # Head(b) THEN Head(a) < Head(b)
    ELSE LexLess(Tail(a), Tail(b))

\* Keyword arguments given to update, insert and upsert: a status, a
\* transfer_date, and a name that is not a column of the table.
KwargNames == {"status", "transfer_date", "md5sum_map_path"}

KwargValues(f) ==
    CASE f = "status" -> {"SUCCESS", "FAILED"}
      [] f = "transfer_date" -> Dates
      [] OTHER -> {"x"}

Kwargs ==
    UNION {{k \in [D -> {"SUCCESS", "FAILED", "x"} \cup Dates] :
               \A f \in D : k[f] \in KwargValues(f)} : D \in SUBSET KwargNames}

NoOp == [name |-> "none", run_id |-> "none", kwargs |-> <<>>]

NoCli ==
    [table |-> [r \in RunIds |-> NoRun], op |-> NoOp, results |-> <<>>]

NoAttempt == [rc |-> -1, marker |-> FALSE, sync_ok |-> FALSE]

\* Locals of main() before the process starts and after it has exited.
\*   last        result of the sync call of the attempt in progress
\*   outcome     history: how the latest finished attempt ended
\*   first_good  history: number of the first attempt whose sync succeeded
\*               with complete reconciliation (0: none yet)
\*   listing     the destination listing populate_file_records works on
\*   pending     the row whose absence was established by the first
\*               SELECT COUNT(*) and whose INSERT has not run yet
\*   missing_files  the set returned by the last check_files_transferred
\*   rsync_calls history: number of sync-tool processes started so far
\*   marked      history: this invocation has written PROCESSING
\*   touched     history: this invocation has changed the destination
NoLocals ==
    [existing_status |-> "ABSENT", attempt |-> 0, success |-> FALSE,
     last |-> NoAttempt, outcome |-> "none", first_good |-> 0,
     listing |-> {}, pending |-> NoRow, missing_files |-> {},
     rsync_calls |-> 0,
     local_md5_path |-> NoPath,
     final_log_path |-> NoPath, final_md5_path |-> NoPath,
     marked |-> FALSE, touched |-> FALSE]

Init ==
    /\ run = NoRun
    /\ file_record = EmptyBag
    /\ dest_files = [d \in Dests |-> {}]
    /\ dirs = {}
    /\ artifacts = {}
    /\ args \in [destination_dir : Destinations, max_retry : -1..MaxRetry]
    /\ env \in [source_files : SourceTrees, source_ok : BOOLEAN,
                 dest_writable : BOOLEAN]
    /\ manifest = [p \in Procs |-> {}]
    /\ cli = NoCli
    /\ sync = NoSync
    /\ pc = [p \in Procs |-> "idle"]
    /\ loc = [p \in Procs |-> NoLocals]
    /\ exit_code = [p \in Procs |-> -1]
    /\ final_status = [p \in Procs |-> "NONE"]
    /\ overlapped = FALSE

\* ----------------------------------------------------------------- ledger
\* models.py check_run_status: the status of the row, None when absent.
check_run_status(r) == r.status

\* models.py insert_run_record: INSERT OR REPLACE on the primary key: a
\* row already there is deleted and a new row takes its place.  created_by
\* is a history field: the process whose INSERT created the row.
insert_run_record(r, source_dir, target_dir, status, log_path, md5_path) ==
    [status |-> status, source_dir |-> source_dir, target_dir |-> target_dir,
     transfer_log_file_path |-> log_path, md5sum_map_path |-> md5_path,
     created_by |-> "none"]

\* models.py update_run_status: UPDATE ... WHERE run_ID = ?  (no row: no-op)
update_run_status(r, status) ==
    IF r = NoRun THEN r ELSE [r EXCEPT !.status = status]

\* models.py update_run_md5sum_path
update_run_md5sum_path(r, path) ==
    IF r = NoRun THEN r ELSE [r EXCEPT !.md5sum_map_path = path]

\* transfer.py:375-380  UPDATE run SET transfer_log_file_path
update_run_log_path(r, path) ==
    IF r = NoRun THEN r ELSE [r EXCEPT !.transfer_log_file_path = path]

\* ------------------------------------------------------------------ main
\* Processes that have read the status, passed the guard and not yet
\* written PROCESSING.
InGuardWindow(q) == pc[q] \in {"target", "mark"}

\* Processes past the status guard and still running.
PastGuard(q) == pc[q] \in {"target", "mark", "loop", "scan", "verify", "manifest",
                           "relocate", "final"}

\* Guard variants with one of the two tests left out.
PassesGuard_NoSuccessTest(status) == status # "PROCESSING"

PassesGuard_NoProcessingTest(status) == status # "SUCCESS"

\* transfer.py:272-277  the guard: SUCCESS and PROCESSING return early.
PassesGuard(status) == status \notin {"SUCCESS", "PROCESSING"}

\* transfer.py:274, 277  the two early returns.
SkipPosition(status) ==
    IF status = "SUCCESS" THEN "skip_success" ELSE "skip_processing"

\* Exit code of a main() that returns normally: the script ends with a
\* bare main() call (transfer.py:382-383), whatever the status.
ReturnCode(status) == 0

\* transfer.py:247-277  parse the arguments, create event_logs and the log
\* file, read the ledger status and return early on SUCCESS or PROCESSING.
Invoke(p) ==
    /\ pc[p] = "idle"
    /\ env.source_ok
    /\ dirs' = dirs \cup {"event_logs"}
    /\ artifacts' = artifacts \cup {LocalLogPath(p)}
    /\ IF PassesGuard(check_run_status(run))
         THEN /\ pc' = [pc EXCEPT ![p] = "target"]
              /\ loc' = [loc EXCEPT ![p].existing_status = check_run_status(run)]
              /\ UNCHANGED exit_code
         ELSE /\ pc' = [pc EXCEPT ![p] = SkipPosition(check_run_status(run))]
              /\ exit_code' = [exit_code EXCEPT ![p] =
                                 ReturnCode(check_run_status(run))]
              /\ UNCHANGED loc
    /\ overlapped' = (overlapped \/ (PassesGuard(check_run_status(run))
                                      /\ \E q \in Procs \ {p} : InGuardWindow(q)))
    /\ UNCHANGED <<run, file_record, dest_files, args, env, cli, sync, manifest, final_status>>

\* transfer.py:208-216, 220-247  parse_args: valid_directory rejects a
\* source_dir that does not exist, is not a directory or is not readable;
\* argparse prints the error and exits with code 2 before main() does
\* anything else.
RejectArguments(p) ==
    /\ pc[p] = "idle"
    /\ ~env.source_ok
    /\ pc' = [pc EXCEPT ![p] = "rejected"]
    /\ exit_code' = [exit_code EXCEPT ![p] = 2]
    /\ UNCHANGED <<run, file_record, dest_files, dirs, artifacts, args, env, cli, sync,
                   manifest, loc, final_status, overlapped>>

\* An uncaught exception ends the process with exit code 1.
Crash(p) ==
    /\ pc' = [pc EXCEPT ![p] = "crashed"]
    /\ exit_code' = [exit_code EXCEPT ![p] = 1]
    /\ loc' = [loc EXCEPT ![p] = NoLocals]

\* transfer.py:279-293  build the target directory name; a local target
\* directory is created here (mkdir parents=True, exist_ok=True), which
\* raises when the directory is missing and cannot be created.  Nothing
\* is checked for a remote destination.
MakeTarget(p) ==
    LET dst == args.destination_dir[p]
        target == ActualTargetDir(dst)
    IN  /\ pc[p] = "target"
        /\ IF IsRemote(dst)
             THEN /\ pc' = [pc EXCEPT ![p] = "mark"]
                  /\ UNCHANGED <<dirs, loc, exit_code>>
             ELSE IF target \notin dirs /\ ~env.dest_writable
                    THEN /\ Crash(p)
                         /\ UNCHANGED dirs
                    ELSE /\ dirs' = dirs \cup {target}
                         /\ loc' = [loc EXCEPT
                                      ![p].touched = @ \/ target \notin dirs]
                         /\ pc' = [pc EXCEPT ![p] = "mark"]
                         /\ UNCHANGED exit_code
        /\ UNCHANGED <<run, file_record, dest_files, artifacts, args, env, cli, sync,
                       manifest, final_status, overlapped>>

\* Loop bound off by one: range(1, max_retry + 2).
MoreAttempts_OffByOne(a, n) == a <= n

\* transfer.py:305  'for attempt in range(1, max_retry + 1)': is there
\* another iteration after a attempts?
MoreAttempts(a, n) == a < n

\* Position after an attempt that did not break out of the loop.
AfterLoopBody(a, n) == IF MoreAttempts(a, n) THEN "loop" ELSE "manifest"

\* The loop without its break statement.
AfterReconcile_NoBreak(good, a, n) == AfterLoopBody(a, n)

\* transfer.py:314-319  break on success, otherwise go on with the loop.
AfterReconcile(good, a, n) == IF good THEN "manifest" ELSE AfterLoopBody(a, n)

\* An invocation that inserts whatever status it read.
NeedsInsert_Always(existing_status) == TRUE

\* transfer.py:296  'if existing_status is None'
NeedsInsert(existing_status) == existing_status = "ABSENT"

\* transfer.py:295-301  write PROCESSING: insert when no row was read,
\* update otherwise.
MarkProcessing(p) ==
    LET dst == args.destination_dir[p]
    IN  /\ pc[p] = "mark"
        /\ run' = IF NeedsInsert(loc[p].existing_status)
                    THEN [insert_run_record(run, "/data/Run-001",
                                            ActualTargetDir(dst), "PROCESSING",
                                            LocalLogPath(p), TempMd5Path)
                            EXCEPT !.created_by = p]
                    ELSE update_run_status(run, "PROCESSING")
        /\ loc' = [loc EXCEPT ![p].marked = TRUE]
        /\ pc' = [pc EXCEPT ![p] = AfterLoopBody(0, args.max_retry)]
        /\ UNCHANGED <<file_record, dest_files, dirs, artifacts, args, env, cli, sync, manifest, exit_code,
                       final_status, overlapped>>

\* An attempt that runs the tool twice, once per mode.
SyncModes_Pair == <<"fast", "verify">>

\* transfer.py:63-69  the sync-tool commands of one attempt: a single
\* 'rsync -avP --update --checksum'.
SyncModes == <<"update_checksum">>

\* transfer.py:72-77  run_rsync's return value: the exit code alone.
RsyncReturn(rc, marker) == rc = 0

\* transfer.py:306-308, 320-321 and run_rsync 61-77: start an attempt and
\* run the sync tool.  The tool copies some set of source files and
\* reports an exit code; its output (appended to the log) may contain a
\* failure marker.  Into a destination that cannot be written it copies
\* nothing and exits non-zero.
RunRsync(p, copied, rc, marker) ==
    LET dst == args.destination_dir[p]
        a == loc[p].attempt + 1
        ok == RsyncReturn(rc, marker)
    IN  /\ pc[p] = "loop"
        /\ env.dest_writable \/ (copied = {} /\ rc # 0)
        /\ dest_files' = [dest_files EXCEPT ![dst] = @ \cup copied]
        /\ loc' = [loc EXCEPT
                     ![p].attempt = a,
                     ![p].rsync_calls = @ + Len(SyncModes),
                     ![p].missing_files = {},
                     ![p].touched = @ \/ ~(copied \subseteq dest_files[dst]),
                     ![p].last = IF ok THEN [rc |-> rc, marker |-> marker,
                                             sync_ok |-> ok]
                                       ELSE NoAttempt,
                     ![p].outcome = IF ok THEN @ ELSE "rsync_failed"]
        /\ pc' = [pc EXCEPT ![p] = IF ok THEN "scan"
                                         ELSE AfterLoopBody(a, args.max_retry)]
        /\ UNCHANGED <<run, file_record, dirs, artifacts, args, env, cli, sync, manifest, exit_code,
                       final_status, overlapped>>

SourceNames == {Name(f) : f \in SourcePaths}

\* transfer.py:107 / 141  the file names that have a row in file_record.
Recorded(fr) == {r.file_name : r \in BagToSet(fr)}

\* A filter that lets every destination file through.
InSource_Any(n) == TRUE

\* transfer.py:139 / 156  'file_name in source_files'
InSource(n) == n \in SourceNames

\* An existence check that never finds a row.
AlreadyRecorded_Never(fr, n) == FALSE

\* transfer.py:141-142 / 158-159  SELECT COUNT(*) ... WHERE run_ID = ? AND
\* file_name = ?  returns a non-zero count.
AlreadyRecorded(fr, n) == n \in Recorded(fr)

\* Names for which populate_file_records inserts a row: names of listed
\* files that pass the source filter and have no row yet.
ToInsert(fr, listing) ==
    {n \in {Name(f) : f \in listing} : InSource(n) /\ ~AlreadyRecorded(fr, n)}

\* transfer.py:143-144 / 160-161  the inserted row for a destination file
\* named n.  Of column full_path_target_dir the row keeps the target
\* directory; which of several listed files named n comes first in the
\* listing, and so supplies the rest of the path, is left open.
NewRow(target, n) == [file_name |-> n, full_path_target_dir |-> target]

\* transfer.py:114-165  populate_file_records: the loop over the listed
\* files, each one filtered, looked up and inserted when it has no row.
RECURSIVE populate_file_records(_, _, _)
populate_file_records(fr, target, listing) ==
    IF listing = {} THEN fr
    ELSE LET f == CHOOSE x \in listing : TRUE
             n == Name(f)
             fr1 == IF InSource(n) /\ ~AlreadyRecorded(fr, n)
                      THEN fr (+) SetToBag({NewRow(target, n)})
                      ELSE fr
         IN  populate_file_records(fr1, target, listing \ {f})

\* The source names that do have a row.
MissingFiles_Present(fr) == SourceNames \cap Recorded(fr)

\* transfer.py:94-112  check_files_transferred: the missing names.
MissingFiles(fr) == SourceNames \ Recorded(fr)

\* Reconciliation that trusts the sync tool and always reports complete.
check_files_transferred_Trusting(fr) == TRUE

\* transfer.py:112  'len(missing_files) == 0'
check_files_transferred(fr) == MissingFiles(fr) = {}

\* transfer.py:314-317  an attempt counts as success when the sync call
\* returned True and reconciliation is complete.
AttemptSucceeds(sync_ok, complete) == sync_ok /\ complete

\* transfer.py:114-142 / 150-159  populate_file_records up to its first
\* INSERT: list the destination (listed is FALSE when the remote listing
\* command fails) and run SELECT COUNT(*) for the listed files in turn, on
\* a connection that has no transaction open, until one returns 0.  first
\* is the name of that file.  Another process can commit rows before the INSERT runs.
ScanTarget(p, listed, first) ==
    LET dst == args.destination_dir[p]
        listing == IF listed THEN dest_files[dst] \cup StrayPaths ELSE {}
        todo == ToInsert(file_record, listing)
    IN  /\ pc[p] = "scan"
        /\ IsRemote(dst) \/ listed
        /\ IF todo = {} THEN first = "none" ELSE first \in todo
        /\ loc' = [loc EXCEPT
                     ![p].listing = IF todo = {} THEN {} ELSE listing,
                     ![p].pending = IF todo = {} THEN NoRow
                                    ELSE NewRow(ActualTargetDir(dst), first)]
        /\ pc' = [pc EXCEPT ![p] = "verify"]
        /\ UNCHANGED <<run, file_record, dest_files, dirs, artifacts, args, env, cli, sync, manifest,
                       exit_code, final_status, overlapped>>

\* transfer.py:143-165 and 309-319  the INSERT that follows the first
\* SELECT COUNT(*), the rest of populate_file_records inside the write
\* transaction, the commit, and check_files_transferred.
Reconcile(p) ==
    LET dst == args.destination_dir[p]
        listing == loc[p].listing
        fr0 == IF loc[p].pending = NoRow THEN file_record
               ELSE file_record (+) SetToBag({loc[p].pending})
        fr == populate_file_records(fr0, ActualTargetDir(dst), listing)
        complete == check_files_transferred(fr)
        good == AttemptSucceeds(loc[p].last.sync_ok, complete)
    IN  /\ pc[p] = "verify"
        /\ file_record' = fr
        /\ loc' = [loc EXCEPT
                     ![p].last = NoAttempt,
                     ![p].listing = {},
                     ![p].pending = NoRow,
                     ![p].missing_files = MissingFiles(fr),
                     ![p].outcome = IF good THEN "ok" ELSE "incomplete",
                     ![p].success = IF good THEN TRUE ELSE @,
                     ![p].first_good = IF @ = 0 /\ loc[p].last.rc = 0 /\ complete
                                         THEN loc[p].attempt ELSE @]
        /\ pc' = [pc EXCEPT ![p] =
                    AfterReconcile(good, loc[p].attempt, args.max_retry)]
        /\ UNCHANGED <<run, dest_files, dirs, artifacts, args, env, cli, sync, manifest, exit_code,
                       final_status, overlapped>>

\* A digest table keyed by bare file name.
create_md5_table_ByName(files) ==
    [k \in {<<Name(f)>> : f \in files} |-> <<"md5", k>>]

\* transfer.py:51-59  create_md5_table: a dict from the relative path of
\* every regular file under the source to the digest of its contents (a
\* 32-digit string, here a token naming the file).
create_md5_table(files) == [k \in files |-> <<"md5", k>>]

\* transfer.py:180-206  create_md5_mapping_file: one row per entry of the
\* digest table, with the source path and the target path of the file.
create_md5_mapping_file(files, target) ==
    LET md5_table == create_md5_table(files)
    IN  {[relative_path |-> k, hash |-> md5_table[k],
          source_full_path |-> <<"/data/Run-001", k>>,
          target_full_path |-> <<target, k>>] : k \in DOMAIN md5_table}

\* transfer.py:326-339  create the manifest and append the summary to the
\* log.  ok is FALSE when hashing or opening the manifest raises; the
\* exception is not caught.
CreateManifest(p, ok) ==
    LET dst == args.destination_dir[p]
    IN  /\ pc[p] = "manifest"
        /\ ok => (IsRemote(dst) \/ env.dest_writable)
        /\ IF ok
             THEN /\ loc' = [loc EXCEPT
                               ![p].local_md5_path = LocalMd5Path(p, dst),
                               ![p].missing_files = {},
                               ![p].touched = @ \/ ~IsRemote(dst)]
                  /\ artifacts' = artifacts \cup {LocalMd5Path(p, dst)}
                  /\ manifest' = [manifest EXCEPT ![p] =
                        create_md5_mapping_file(SourcePaths,
                                                ActualTargetDir(dst))]
                  /\ pc' = [pc EXCEPT ![p] = "relocate"]
                  /\ UNCHANGED exit_code
             ELSE /\ Crash(p)
                  /\ UNCHANGED <<artifacts, manifest>>
        /\ UNCHANGED <<run, file_record, dest_files, dirs, args, env, cli, sync,
                       final_status, overlapped>>

\* transfer.py:341-358  remote destination: copy the log and the manifest
\* with scp; a failed copy keeps the local path.
RelocateRemote(p, log_ok, md5_ok) ==
    LET dst == args.destination_dir[p]
    IN  /\ pc[p] = "relocate"
        /\ IsRemote(dst)
        /\ (log_ok \/ md5_ok) => env.dest_writable
        /\ loc' = [loc EXCEPT
                     ![p].final_log_path =
                         IF log_ok THEN DestLogPath(p, dst) ELSE LocalLogPath(p),
                     ![p].final_md5_path =
                         IF md5_ok THEN DestMd5Path(p, dst)
                                   ELSE loc[p].local_md5_path,
                     ![p].touched = @ \/ log_ok \/ md5_ok]
        /\ artifacts' = artifacts
                          \cup (IF log_ok THEN {DestLogPath(p, dst)} ELSE {})
                          \cup (IF md5_ok THEN {DestMd5Path(p, dst)} ELSE {})
        /\ pc' = [pc EXCEPT ![p] = "final"]
        /\ UNCHANGED <<run, file_record, dest_files, dirs, args, env, cli, sync, manifest, exit_code,
                       final_status, overlapped>>

\* transfer.py:359-366  local destination: shutil.move the log, then the
\* manifest (already in the target directory).  A failing move raises.
RelocateLocal(p, log_ok, md5_ok) ==
    LET dst == args.destination_dir[p]
        moved == (artifacts \ {LocalLogPath(p)}) \cup {DestLogPath(p, dst)}
    IN  /\ pc[p] = "relocate"
        /\ ~IsRemote(dst)
        /\ log_ok \/ md5_ok
        /\ log_ok => env.dest_writable
        /\ artifacts' = IF log_ok THEN moved ELSE artifacts
        /\ IF log_ok /\ md5_ok
             THEN /\ loc' = [loc EXCEPT
                               ![p].final_log_path = DestLogPath(p, dst),
                               ![p].final_md5_path = DestMd5Path(p, dst),
                               ![p].touched = TRUE]
                  /\ pc' = [pc EXCEPT ![p] = "final"]
                  /\ UNCHANGED exit_code
             ELSE Crash(p)
        /\ UNCHANGED <<run, file_record, dest_files, dirs, args, env, cli, sync, manifest, final_status,
                       overlapped>>

\* transfer.py:369  final_status = "SUCCESS" if success else "FAILED"
FinalStatus(ok) == IF ok THEN "SUCCESS" ELSE "FAILED"

\* transfer.py:368-383  write the final status and the final paths, then
\* return from main().
FinalUpdate(p) ==
    LET st == FinalStatus(loc[p].success)
        r1 == update_run_status(run, st)
        r2 == update_run_md5sum_path(r1, loc[p].final_md5_path)
        r3 == IF loc[p].final_log_path # LocalLogPath(p)
                THEN update_run_log_path(r2, loc[p].final_log_path) ELSE r2
    IN  /\ pc[p] = "final"
        /\ final_status' = [final_status EXCEPT ![p] = st]
        /\ run' = r3
        /\ pc' = [pc EXCEPT ![p] = "done"]
        /\ exit_code' = [exit_code EXCEPT ![p] = ReturnCode(st)]
        /\ loc' = [loc EXCEPT ![p] = NoLocals]
        /\ UNCHANGED <<file_record, dest_files, dirs, artifacts, args, env, cli, sync, manifest, overlapped>>

\* ------------------------------------------------------- db_cli.py
\* An update that writes a whole new record from the arguments.
update_Replacing(table, run_id, kwargs) ==
    IF table[run_id] = NoRun THEN table
    ELSE [table EXCEPT ![run_id] =
            [f \in CliFields |-> IF f \in DOMAIN kwargs THEN kwargs[f] ELSE "NA"]]

\* db_cli.py:97-154  TransferDB.update: on an existing record, UPDATE run
\* SET the given fields that are in valid_fields.
update(table, run_id, kwargs) ==
    LET valid_fields == {"source_dir", "target_dir", "status", "log_path",
                         "transfer_date", "transfer_time"}
        set_clauses == DOMAIN kwargs \cap valid_fields
    IN  IF table[run_id] = NoRun \/ set_clauses = {} THEN table
        ELSE [table EXCEPT ![run_id] =
                [f \in CliFields |->
                    IF f \in set_clauses THEN kwargs[f] ELSE table[run_id][f]]]

\* An insert without the existence check (INSERT OR REPLACE).
insert_Replacing(table, run_id, kwargs, now_date, now_time) ==
    [table EXCEPT ![run_id] =
        [f \in CliFields |->
            IF f \in DOMAIN kwargs THEN kwargs[f]
            ELSE IF f = "transfer_date" THEN now_date
            ELSE IF f = "transfer_time" THEN now_time ELSE "NA"]]

\* db_cli.py:156-218  TransferDB.insert: when no record exists, INSERT the
\* defaults (current date and time, "NA") overridden by the given fields.
insert(table, run_id, kwargs, now_date, now_time) ==
    LET defaults == [f \in CliFields |->
                        IF f = "transfer_date" THEN now_date
                        ELSE IF f = "transfer_time" THEN now_time ELSE "NA"]
    IN  IF table[run_id] # NoRun THEN table
        ELSE [table EXCEPT ![run_id] =
                [f \in CliFields |->
                    IF f \in DOMAIN kwargs THEN kwargs[f] ELSE defaults[f]]]

\* db_cli.py:220-242  TransferDB.delete
delete(table, run_id) == [table EXCEPT ![run_id] = NoRun]

\* db_cli.py:244-267  TransferDB.upsert: update when a record exists,
\* insert otherwise.
upsert(table, run_id, kwargs, now_date, now_time) ==
    IF table[run_id] # NoRun THEN update(table, run_id, kwargs)
    ELSE insert(table, run_id, kwargs, now_date, now_time)

\* utils/status.py:27-49  the WHERE clause: run_id = ? and/or status = ?
\* ("none": the option was not given).
Matches(table, r, run_id, status) ==
    /\ table[r] # NoRun
    /\ run_id = "none" \/ r = run_id
    /\ status = "none" \/ table[r]["status"] = status

\* utils/status.py:51  ORDER BY transfer_date DESC, transfer_time DESC on
\* the stored text: may row a come right before row b?
OrderedBefore(a, b) ==
    \/ LexLess(Digits(b["transfer_date"]), Digits(a["transfer_date"]))
    \/ /\ a["transfer_date"] = b["transfer_date"]
       /\ ~LexLess(Digits(a["transfer_time"]), Digits(b["transfer_time"]))

CliUpdate(run_id, kwargs) ==
    /\ cli' = [table |-> update(cli.table, run_id, kwargs),
               op |-> [name |-> "update", run_id |-> run_id, kwargs |-> kwargs],
               results |-> <<>>]
    /\ UNCHANGED <<main_vars, sync>>

CliInsert(run_id, kwargs, now_date, now_time) ==
    /\ cli' = [table |-> insert(cli.table, run_id, kwargs, now_date, now_time),
               op |-> [name |-> "insert", run_id |-> run_id, kwargs |-> kwargs],
               results |-> <<>>]
    /\ UNCHANGED <<main_vars, sync>>

CliUpsert(run_id, kwargs, now_date, now_time) ==
    /\ cli' = [table |-> upsert(cli.table, run_id, kwargs, now_date, now_time),
               op |-> [name |-> "upsert", run_id |-> run_id, kwargs |-> kwargs],
               results |-> <<>>]
    /\ UNCHANGED <<main_vars, sync>>

CliDelete(run_id) ==
    /\ cli' = [table |-> delete(cli.table, run_id),
               op |-> [name |-> "delete", run_id |-> run_id, kwargs |-> <<>>],
               results |-> <<>>]
    /\ UNCHANGED <<main_vars, sync>>

\* utils/status.py:9-70  the status query: rows is the sequence of run ids
\* of the returned rows, in the order the ORDER BY clause allows.
StatusQuery(run_id, status, rows) ==
    /\ {rows[i] : i \in DOMAIN rows} =
          {r \in RunIds : Matches(cli.table, r, run_id, status)}
    /\ \A i, j \in DOMAIN rows : i # j => rows[i] # rows[j]
    /\ \A i \in DOMAIN rows :
          i + 1 \in DOMAIN rows =>
              OrderedBefore(cli.table[rows[i]], cli.table[rows[i + 1]])
    /\ cli' = [table |-> cli.table,
               op |-> [name |-> "query", run_id |-> run_id,
                       kwargs |-> [status |-> status]],
               results |-> rows]
    /\ UNCHANGED <<main_vars, sync>>

\* ------------------------------------------------------------- main.py
\* main.py:41-50  the source files that have no row, or a row with an
\* older mtime.
get_files_to_sync(source, synced_files) ==
    {f \in SyncFiles :
        /\ source[f] # NoMtime
        /\ synced_files[f] = NoMtime \/ synced_files[f] < source[f]}

\* main.py:30-39  INSERT OR REPLACE of one row per entry of files.
update_synced_files(synced_files, files) ==
    [f \in SyncFiles |-> IF f \in DOMAIN files THEN files[f]
                                              ELSE synced_files[f]]

\* Position of a file in the walk.
Position(f) == CHOOSE i \in DOMAIN SyncOrder : SyncOrder[i] = f

\* The source directory changes: a file is created or modified.
Touch(f, mtime) ==
    /\ mtime # sync.source[f]
    /\ sync' = [sync EXCEPT !.source[f] = mtime, !.op = "touched",
                            !.to_sync = {}, !.failed = {}]
    /\ UNCHANGED <<main_vars, cli>>

\* main.py:52-105  one run of main().  failed: the files whose rsync exits
\* non-zero (caught at line 100); ssh_failed: the file at which the ssh
\* mkdir exits non-zero ("none": at no file), which raises out of main()
\* (check=True at line 89, not caught) before the table is written.
\* With nothing to sync main() returns at line 82; the table is the same
\* as after an update with no entries.
SyncMain(failed, ssh_failed) ==
    LET files == get_files_to_sync(sync.source, sync.synced_files)
        reached == IF ssh_failed = "none" THEN files
                   ELSE {f \in files : Position(f) < Position(ssh_failed)}
        copied == reached \ failed
    IN  /\ ssh_failed \in files \cup {"none"}
        /\ failed \subseteq reached
        /\ IF ~sync.configured
              THEN sync' = [sync EXCEPT !.op = "returned", !.to_sync = {},
                                        !.failed = {}]
              ELSE sync' =
                     [sync EXCEPT
                        !.remote = [f \in SyncFiles |->
                                      IF f \in copied THEN sync.source[f]
                                                      ELSE sync.remote[f]],
                        !.synced_files =
                            IF ssh_failed = "none"
                              THEN update_synced_files(sync.synced_files,
                                       [f \in files |-> sync.source[f]])
                              ELSE sync.synced_files,
                        !.op = IF ssh_failed = "none" THEN "completed"
                                                      ELSE "crashed",
                        !.to_sync = files,
                        !.failed = failed]
        /\ UNCHANGED <<main_vars, cli>>

\* ------------------------------------------------------------ properties
PostLoop == {"manifest", "relocate", "final"}

\* A step in which process p is started and reads the ledger status.
Reads(p) == pc[p] = "idle" /\ pc'[p] # "idle"

\* A step in which process p writes its final status and returns.
Finishes(p) == pc[p] = "final" /\ pc'[p] = "done"

\* C1: an invocation that reads status SUCCESS returns at once with exit
\* code 0: it starts no attempt (no sync-tool call), leaves the run row, the
\* file_record table and the destination unchanged, and never acts again.
C1_IdempotentSkip ==
    [][\A p \in Procs :
         /\ (Reads(p) /\ run.status = "SUCCESS") =>
               /\ pc'[p] = "skip_success"
               /\ exit_code'[p] = 0
               /\ loc'[p].attempt = 0
               /\ UNCHANGED <<run, file_record, dest_files>>
         /\ pc[p] = "skip_success" =>
               /\ pc'[p] = "skip_success"
               /\ exit_code'[p] = 0
               /\ loc'[p].attempt = 0]_vars

C1_Witness ==
    \E p \in Procs : pc[p] = "skip_success" /\ run.status = "SUCCESS"

\* C2: an invocation that reads status PROCESSING returns at once: it starts
\* no attempt (no sync-tool call) and leaves the status PROCESSING (the run
\* row is unchanged), and never acts again.
C2_InFlightGuard ==
    [][\A p \in Procs :
         /\ (Reads(p) /\ run.status = "PROCESSING") =>
               /\ pc'[p] = "skip_processing"
               /\ exit_code'[p] # -1
               /\ loc'[p].attempt = 0
               /\ run' = run /\ run'.status = "PROCESSING"
               /\ UNCHANGED <<file_record, dest_files>>
         /\ pc[p] = "skip_processing" =>
               /\ pc'[p] = "skip_processing"
               /\ loc'[p].attempt = 0]_vars

C2_Witness ==
    \E p \in Procs : pc[p] = "skip_processing" /\ run.status = "PROCESSING"

\* C3: with max_retry = N >= 1, an invocation never makes more than N
\* attempts; when no attempt succeeds the loop ends only after exactly N
\* attempts, and the final status the invocation then writes is FAILED.
C3_BoundedRetries ==
    /\ [](\A p \in Procs :
            args.max_retry >= 1 =>
               /\ loc[p].attempt <= args.max_retry
               /\ (pc[p] \in PostLoop /\ ~loc[p].success) =>
                     loc[p].attempt = args.max_retry)
    /\ [][\A p \in Procs :
            (Finishes(p) /\ args.max_retry >= 1 /\ ~loc[p].success) =>
               /\ loc[p].attempt = args.max_retry
               /\ final_status'[p] = "FAILED"
               /\ run'.status = "FAILED"]_vars

C3_Witness ==
    \E p \in Procs :
        /\ pc[p] = "final"
        /\ ~loc[p].success
        /\ loc[p].outcome = "rsync_failed"
        /\ loc[p].attempt = MaxRetry
        /\ dest_files[args.destination_dir[p]] = {}

\* C4: when attempt k is the first one in which the sync tool succeeds and
\* reconciliation is complete, the invocation makes exactly k attempts: the
\* loop is left at once, no later sync call happens, and the final status
\* written is SUCCESS.
C4_SuccessStopsLoop ==
    /\ [](\A p \in Procs :
            loc[p].first_good # 0 =>
               /\ loc[p].attempt = loc[p].first_good
               /\ loc[p].success
               /\ pc[p] \in PostLoop)
    /\ [][\A p \in Procs :
            /\ (loc[p].first_good # 0 /\ pc'[p] \notin {"done", "crashed"}) =>
                  loc'[p].attempt = loc[p].attempt
            /\ (Finishes(p) /\ loc[p].first_good # 0) =>
                  /\ final_status'[p] = "SUCCESS"
                  /\ run'.status = "SUCCESS"]_vars

C4_Witness ==
    \E p \in Procs :
        /\ pc[p] = "final"
        /\ loc[p].first_good = 1
        /\ loc[p].attempt = 1
        /\ args.max_retry > 1
        /\ loc[p].success

\* C5: an attempt in which the sync tool exits 0 but some source file name
\* has no FileRecord after the reconciliation pass is not a success: the
\* loop goes on to the next attempt, or ends without success after the last
\* attempt, and the final status is then FAILED.
C5_ReconciliationGating ==
    /\ [][\A p \in Procs :
            (/\ pc[p] = "verify" /\ pc'[p] # "verify"
             /\ loc[p].last.rc = 0
             /\ MissingFiles(file_record') # {}) =>
               /\ ~loc'[p].success
               /\ loc'[p].outcome = "incomplete"
               /\ pc'[p] = IF loc[p].attempt < args.max_retry
                             THEN "loop" ELSE "manifest"]_vars
    /\ [][\A p \in Procs :
            (Finishes(p) /\ loc[p].outcome = "incomplete") =>
               final_status'[p] = "FAILED"]_vars

C5_Witness ==
    \E p \in Procs :
        /\ loc[p].outcome = "incomplete"
        /\ pc[p] = "loop"
        /\ MissingFiles(file_record) # {}

StatusChanges ==
    {<<"ABSENT", "PROCESSING">>, <<"FAILED", "PROCESSING">>,
     <<"PROCESSING", "SUCCESS">>, <<"PROCESSING", "FAILED">>}

\* A step that keeps SUCCESS and changes the status only along the four
\* transitions of the state machine.
LegalStatusStep ==
    /\ run.status = "SUCCESS" => run'.status = "SUCCESS"
    /\ run'.status # run.status => <<run.status, run'.status>> \in StatusChanges

\* C6 as stated: over any interleaving of invocations, SUCCESS never changes
\* once reached and the status only moves absent->PROCESSING,
\* FAILED->PROCESSING, PROCESSING->SUCCESS, PROCESSING->FAILED.
C6_Original == [][LegalStatusStep]_vars

\* C6 amended: the same holds as long as no invocation's passing status read
\* has fallen between another invocation's passing status read and that
\* invocation's PROCESSING write.
C6_SuccessTerminal == [][~overlapped' => LegalStatusStep]_vars

C6_Witness ==
    /\ ~overlapped
    /\ run.status = "SUCCESS"
    /\ \E p, q \in Procs : pc[p] = "done" /\ pc[q] = "skip_success"

\* C7 as stated: at no time are two invocations both past the status guard.
C7_Original == Cardinality({p \in Procs : PastGuard(p)}) <= 1

\* C7 amended: at most one invocation is past the status guard, as long as
\* no invocation's passing status read has fallen between another
\* invocation's passing status read and that invocation's PROCESSING write.
C7_MutualExclusion ==
    ~overlapped => Cardinality({p \in Procs : PastGuard(p)}) <= 1

C7_Witness ==
    /\ ~overlapped
    /\ \E p, q \in Procs :
          /\ pc[p] = "verify"
          /\ run.status = "PROCESSING"
          /\ pc[q] = "skip_processing"

\* C8: the exit code reflects the final status written: 0 for SUCCESS,
\* non-zero for FAILED.
C8_ExitCodeReflectsStatus ==
    \A p \in Procs :
        /\ final_status[p] = "SUCCESS" => exit_code[p] = 0
        /\ final_status[p] = "FAILED" => exit_code[p] \notin {0, -1}

\* C9: an invocation has written PROCESSING before it changes anything at
\* the destination, creation of the target directory included.
C9_ProcessingBeforeMutation ==
    \A p \in Procs : loc[p].touched => loc[p].marked

\* C10: a sync call is classified as success only if the tool exited 0 and
\* its output contains no failure marker.
C10_DoubleGate ==
    \A p \in Procs :
        loc[p].last.sync_ok => (loc[p].last.rc = 0 /\ ~loc[p].last.marker)

C12_SkipHasNoSideEffects ==
    [][\A p \in Procs :
          Reads(p) /\ run.status \in {"SUCCESS", "PROCESSING"}
              => UNCHANGED <<dirs, artifacts, dest_files, run, file_record>>]_vars

\* C13: the reconciliation pass that makes an attempt the successful one
\* finds every source file, identified by its relative path, present at the
\* destination.
C13_SuccessMeansAllPresent ==
    [][\A p \in Procs :
          pc[p] = "verify" /\ loc'[p].success
              => SourcePaths \subseteq dest_files[args.destination_dir[p]]]_vars

\* C14: every row of file_record carries a file name that is the name of a
\* file in the source; a destination file whose name is not a source file
\* name is never recorded.
C14_OnlySourceNamesRecorded ==
    \A r \in BagToSet(file_record) :
        /\ r.file_name \in SourceNames
        /\ r.file_name \notin {Name(f) : f \in StrayPaths}

C14_Witness ==
    \E p \in Procs :
        /\ pc[p] = "verify"
        /\ StrayPaths \subseteq loc[p].listing
        /\ loc[p].pending # NoRow
        /\ file_record # EmptyBag

\* The table holds at most one row per file name.
AtMostOneRecordPerName ==
    \A r1, r2 \in BagToSet(file_record) :
        /\ CopiesIn(r1, file_record) = 1
        /\ r1.file_name = r2.file_name => r1 = r2

\* A step that keeps every existing row as it is.
KeepsFileRecords == file_record \sqsubseteq file_record'

\* C15 as stated: at every time, under any interleaving of invocations,
\* file_record holds at most one row per file name, and no step changes or
\* removes an existing row.
C15_Original ==
    []AtMostOneRecordPerName /\ [][KeepsFileRecords]_vars

\* C15 amended: as long as no passing status read has fallen between
\* another invocation's passing status read and its PROCESSING write,
\* file_record holds at most one row per file name; and no step ever
\* changes or removes an existing row.
C15_IdempotentRecording ==
    [](~overlapped => AtMostOneRecordPerName) /\ [][KeepsFileRecords]_vars

C15_Witness ==
    \E p \in Procs :
        /\ ~overlapped
        /\ loc[p].existing_status = "FAILED"
        /\ pc[p] = "verify"
        /\ loc[p].pending # NoRow
        /\ file_record # EmptyBag

\* C16: check_files_transferred reports complete exactly when every source
\* file name has a row in file_record, and the missing set it returns is
\* exactly the set of source file names that have no row.
C16_ReconciliationExact ==
    [][\A p \in Procs :
          pc[p] = "verify" /\ pc'[p] # "verify" =>
              /\ loc'[p].missing_files =
                     {n \in SourceNames :
                         \A r \in BagToSet(file_record') : r.file_name # n}
              /\ (loc'[p].outcome = "ok") <=>
                     (/\ loc[p].last.sync_ok
                      /\ \A n \in SourceNames :
                            \E r \in BagToSet(file_record') : r.file_name = n)]_vars

C16_Witness ==
    \E p \in Procs :
        /\ loc[p].outcome = "incomplete"
        /\ loc[p].missing_files # {}
        /\ loc[p].missing_files # SourceNames

\* The manifest written by p has one row for every source file and no other
\* row; each row carries a non-empty digest, the file's path under the
\* source directory and its path under the target directory.
ManifestComplete(p) ==
    /\ {r.relative_path : r \in manifest[p]} = SourcePaths
    /\ Cardinality(manifest[p]) = Cardinality(SourcePaths)
    /\ \A r \in manifest[p] :
          /\ Len(r.hash) > 0
          /\ r.source_full_path = <<"/data/Run-001", r.relative_path>>
          /\ r.target_full_path =
                <<ActualTargetDir(args.destination_dir[p]), r.relative_path>>

\* C17: an invocation that writes its final status, SUCCESS or FAILED, has
\* emitted a manifest, found at the manifest path it records, with exactly
\* one row per regular source file, keyed by relative path.
C17_ManifestCompleteness ==
    [][\A p \in Procs :
          Finishes(p) =>
              /\ loc[p].final_md5_path \in artifacts
              /\ ManifestComplete(p)]_vars

C17_Witness ==
    \E p \in Procs :
        /\ pc[p] = "final"
        /\ ~loc[p].success
        /\ Cardinality(SourceNames) < Cardinality(SourcePaths)
        /\ Cardinality(manifest[p]) = Cardinality(SourcePaths)

\* C18: when the copy of the log or of the manifest to a remote destination
\* fails, the artifact is still at its local path, the ledger row written
\* at the end names that local path for it, and the final status is the
\* one the outcome of the loop calls for.  Stated for invocations whose
\* status read did not overlap another invocation's guard section.
C18_RelocationErrorNonFatal ==
    [][\A p \in Procs :
          (/\ Finishes(p)
           /\ ~overlapped
           /\ IsRemote(args.destination_dir[p])) =>
              /\ run'.status = FinalStatus(loc[p].success)
              /\ loc[p].final_log_path = LocalLogPath(p) =>
                    /\ LocalLogPath(p) \in artifacts'
                    /\ run'.transfer_log_file_path = LocalLogPath(p)
              /\ loc[p].final_md5_path = loc[p].local_md5_path =>
                    /\ loc[p].local_md5_path \in artifacts'
                    /\ run'.md5sum_map_path = loc[p].local_md5_path]_vars

\* C19: when the source directory is missing or unreadable, or the
\* destination (local or remote) cannot be written, no invocation inserts
\* or updates a run record.
C19_EnvironmentErrorsFailFast ==
    (~env.source_ok \/ ~env.dest_writable) =>
        /\ run = NoRun
        /\ \A p \in Procs : ~loc[p].marked

\* A step that leaves an existing run row in place: the row is neither
\* deleted nor replaced by a new row, and keeps source_dir and target_dir.
KeepsRunRow ==
    run # NoRun =>
        /\ run' # NoRun
        /\ run'.created_by = run.created_by
        /\ run'.source_dir = run.source_dir
        /\ run'.target_dir = run.target_dir

C21_InsertFailsOnExistingRow ==
    [][\A p \in Procs :
          (/\ pc[p] = "mark" /\ pc'[p] # "mark"
           /\ NeedsInsert(loc[p].existing_status)
           /\ run # NoRun) => run' = run]_vars

\* C25: an invocation that read status FAILED writes PROCESSING by updating
\* the existing row (every other column and the row itself stay), starts
\* its loop with no attempt used, and, when no attempt succeeds, ends only
\* after max_retry attempts.
C25_FailedIsRetryable ==
    [][\A p \in Procs :
          /\ (/\ pc[p] = "mark" /\ pc'[p] # "mark"
               /\ loc[p].existing_status = "FAILED") =>
                  /\ run # NoRun
                  /\ run' = [run EXCEPT !.status = "PROCESSING"]
                  /\ loc'[p].attempt = 0
                  /\ pc'[p] = AfterLoopBody(0, args.max_retry)
          /\ (/\ Finishes(p)
               /\ loc[p].existing_status = "FAILED"
               /\ ~loc[p].success
               /\ args.max_retry >= 0) => loc[p].attempt = args.max_retry]_vars

C25_Witness ==
    \E p \in Procs :
        /\ pc[p] = "final"
        /\ loc[p].existing_status = "FAILED"
        /\ loc[p].attempt = MaxRetry
        /\ run.status = "PROCESSING"
        /\ run.created_by # p

\* C26: when an invocation is about to relocate its log and manifest, the
\* final status has been written: the ledger status is SUCCESS or FAILED,
\* no longer PROCESSING.
C26_FinalStatusBeforeRelocation ==
    \A p \in Procs : pc[p] = "relocate" => run.status \in {"SUCCESS", "FAILED"}

\* C27: an invocation that has written PROCESSING does not end without
\* writing SUCCESS or FAILED: no failure of manifest creation or of moving
\* or copying the log and the manifest ends it first.
C27_NoStuckProcessing ==
    [][\A p \in Procs : loc[p].marked => pc'[p] # "crashed"]_vars

\* C28: every attempt of the retry loop is followed by a reconciliation
\* pass, whether the sync tool reported success or failure.
C28_VerifierOnEveryAttempt ==
    [][\A p \in Procs :
          loc'[p].attempt = loc[p].attempt + 1 => pc'[p] = "scan"]_vars

\* C29: when an invocation that passed the guard completes, the log path
\* and the manifest path in the ledger are the paths where its log and its
\* manifest are (the destination path after a successful relocation, the
\* local path otherwise), and the manifest path is not the temporary one.
\* Stated for invocations whose status read did not overlap another
\* invocation's guard section.
C29_LedgerPathsNameArtifacts ==
    [][\A p \in Procs :
          (Finishes(p) /\ ~overlapped) =>
              /\ run'.transfer_log_file_path = loc[p].final_log_path
              /\ run'.transfer_log_file_path \in artifacts'
              /\ run'.md5sum_map_path = loc[p].final_md5_path
              /\ run'.md5sum_map_path \in artifacts'
              /\ run'.md5sum_map_path # TempMd5Path]_vars

\* C30: with max_retry <= 0 an invocation that passes the guard runs the
\* sync tool zero times and reconciles zero times, never counts as a
\* success, and when it completes it has emitted the manifest and moved the
\* ledger from PROCESSING to FAILED.
C30_ZeroRetryBudget ==
    /\ [](\A p \in Procs :
            args.max_retry <= 0 =>
               /\ loc[p].rsync_calls = 0 /\ loc[p].attempt = 0
               /\ loc[p].outcome = "none" /\ ~loc[p].success
               /\ pc[p] \notin {"loop", "scan", "verify"}
               /\ final_status[p] # "SUCCESS"
               /\ loc[p].marked => run.status # "SUCCESS")
    /\ [][\A p \in Procs :
            (Finishes(p) /\ args.max_retry <= 0) =>
               /\ loc[p].marked
               /\ ManifestComplete(p)
               /\ run.status = "PROCESSING" \/ overlapped
               /\ run'.status = "FAILED"]_vars

C30_Witness ==
    \E p \in Procs :
        /\ args.max_retry < 0
        /\ pc[p] = "done"
        /\ final_status[p] = "FAILED"
        /\ run.status = "FAILED"

\* C31: when an invocation that passed the guard completes, the target_dir
\* of the run row is the target directory that invocation transferred to
\* and reconciled against; this includes the retry of a FAILED run with a
\* destination_dir other than the one recorded when the row was created
\* (no other invocation overlapping).
C31_LedgerTargetIsActualTarget ==
    [][\A p \in Procs :
          (Finishes(p) /\ ~overlapped) =>
              run'.target_dir = ActualTargetDir(args.destination_dir[p])]_vars

\* Row b was written at a later date and time than row a.
Earlier(a, b) ==
    LexLess(Calendar(a["transfer_date"]) \o Digits(a["transfer_time"]),
            Calendar(b["transfer_date"]) \o Digits(b["transfer_time"]))

\* C22: the status query returns exactly the rows that match the run_id
\* and status filters, and of any two returned rows the one with the later
\* transfer date and time comes first, also across years.
C22_QueryByRecency ==
    cli.op.name = "query" =>
        /\ {cli.results[i] : i \in DOMAIN cli.results} =
              {r \in RunIds : Matches(cli.table, r, cli.op.run_id,
                                      cli.op.kwargs.status)}
        /\ \A i, j \in DOMAIN cli.results :
              i < j => ~Earlier(cli.table[cli.results[i]],
                                cli.table[cli.results[j]])

\* The valid field names of table run.
ProvidedValid(kwargs) == DOMAIN kwargs \cap CliFields

\* C23: update on an existing record sets exactly the provided fields with
\* valid names and leaves every other field and every other record as it
\* was; with no record for run_id, or no valid field, the table stays as
\* it was.
C23_UpdateFrame ==
    [][cli'.op.name = "update" =>
          LET id == cli'.op.run_id
              kw == cli'.op.kwargs
          IN  /\ \A r \in RunIds \ {id} : cli'.table[r] = cli.table[r]
              /\ cli.table[id] = NoRun => cli'.table[id] = NoRun
              /\ ProvidedValid(kw) = {} => cli'.table = cli.table
              /\ cli.table[id] # NoRun =>
                    \A f \in CliFields :
                        cli'.table[id][f] =
                            IF f \in ProvidedValid(kw) THEN kw[f]
                            ELSE cli.table[id][f]]_vars

C23_Witness ==
    /\ cli.op.name = "update"
    /\ DOMAIN cli.op.kwargs = {"status", "md5sum_map_path"}
    /\ cli.table[cli.op.run_id] # NoRun
    /\ cli.table[cli.op.run_id]["status"] = "FAILED"
    /\ cli.table[cli.op.run_id]["transfer_date"] = "12/31/2024"
    /\ \E r \in RunIds \ {cli.op.run_id} :
          cli.table[r] # NoRun /\ cli.table[r]["status"] = "SUCCESS"

\* C24: insert on a run_id that has a record leaves the table as it was;
\* upsert always leaves a record for run_id in which every provided valid
\* field has the provided value, and leaves every other record as it was.
C24_InsertAndUpsert ==
    [][LET id == cli'.op.run_id
           kw == cli'.op.kwargs
       IN  /\ (cli'.op.name = "insert" /\ cli.table[id] # NoRun) =>
                 cli'.table = cli.table
           /\ cli'.op.name = "upsert" =>
                 /\ cli'.table[id] # NoRun
                 /\ \A f \in ProvidedValid(kw) : cli'.table[id][f] = kw[f]
                 /\ \A r \in RunIds \ {id} : cli'.table[r] = cli.table[r]
                 /\ cli.table[id] # NoRun =>
                       \A f \in CliFields \ ProvidedValid(kw) :
                           cli'.table[id][f] = cli.table[id][f]]_vars

C24_Witness ==
    /\ cli.op.name = "upsert"
    /\ DOMAIN cli.op.kwargs = {"status", "md5sum_map_path"}
    /\ cli.table[cli.op.run_id] # NoRun
    /\ cli.table[cli.op.run_id]["status"] = cli.op.kwargs["status"]
    /\ cli.table[cli.op.run_id]["transfer_date"] = "01/01/2025"
    /\ cli.table[cli.op.run_id]["transfer_time"] = "17:30:00"

\* C32: in the per-file sync script a file's (relative path, mtime) is in
\* table synced_files only if the rsync of that file succeeded: after a run
\* of main(), no file whose rsync failed in that run has a row with its
\* current mtime, and every such file is selected again by
\* get_files_to_sync.
C32_FailedFileIsNotRecorded ==
    sync.op \in {"completed", "crashed"} =>
        \A f \in sync.failed :
            /\ sync.synced_files[f] # sync.source[f]
            /\ f \in get_files_to_sync(sync.source, sync.synced_files)

\* The row sequences a query can return.
RowSeqs == {<<>>} \cup {<<r>> : r \in RunIds}
              \cup {<<r1, r2>> : r1 \in RunIds, r2 \in RunIds}

\* The command-line tools start on an empty table; no transfer runs.
CliInit ==
    /\ run = NoRun
    /\ file_record = EmptyBag
    /\ dest_files = [d \in Dests |-> {}]
    /\ dirs = {}
    /\ artifacts = {}
    /\ args = [destination_dir |-> [p \in Procs |-> "/backup"],
               max_retry |-> 0]
    /\ env = [source_files |-> {<<"a.txt">>, <<"c.txt">>}, source_ok |-> TRUE,
              dest_writable |-> TRUE]
    /\ manifest = [p \in Procs |-> {}]
    /\ cli = NoCli
    /\ sync = NoSync
    /\ pc = [p \in Procs |-> "idle"]
    /\ loc = [p \in Procs |-> NoLocals]
    /\ exit_code = [p \in Procs |-> -1]
    /\ final_status = [p \in Procs |-> "NONE"]
    /\ overlapped = FALSE

CliNext ==
    \/ \E run_id \in RunIds, kwargs \in Kwargs : CliUpdate(run_id, kwargs)
    \/ \E run_id \in RunIds, kwargs \in Kwargs, d \in Dates, t \in Times :
          CliInsert(run_id, kwargs, d, t)
    \/ \E run_id \in RunIds, kwargs \in Kwargs, d \in Dates, t \in Times :
          CliUpsert(run_id, kwargs, d, t)
    \/ \E run_id \in RunIds : CliDelete(run_id)
    \/ \E run_id \in RunIds \cup {"none"},
          status \in {"SUCCESS", "FAILED", "PROCESSING", "none"},
          rows \in RowSeqs : StatusQuery(run_id, status, rows)

CliSpec == CliInit /\ [][CliNext]_vars

\* The sync script starts on an empty table synced_files, with any source
\* directory, with or without its environment variables set; no transfer
\* runs.
SyncInit ==
    /\ run = NoRun
    /\ file_record = EmptyBag
    /\ dest_files = [d \in Dests |-> {}]
    /\ dirs = {}
    /\ artifacts = {}
    /\ args = [destination_dir |-> [p \in Procs |-> "/backup"],
               max_retry |-> 0]
    /\ env = [source_files |-> {<<"a.txt">>, <<"c.txt">>}, source_ok |-> TRUE,
              dest_writable |-> TRUE]
    /\ manifest = [p \in Procs |-> {}]
    /\ cli = NoCli
    /\ sync \in {[NoSync EXCEPT !.configured = c, !.source = src] :
                   c \in BOOLEAN,
                   src \in [SyncFiles -> Mtimes \cup {NoMtime}]}
    /\ pc = [p \in Procs |-> "idle"]
    /\ loc = [p \in Procs |-> NoLocals]
    /\ exit_code = [p \in Procs |-> -1]
    /\ final_status = [p \in Procs |-> "NONE"]
    /\ overlapped = FALSE

SyncNext ==
    \/ \E f \in SyncFiles, mtime \in Mtimes : Touch(f, mtime)
    \/ \E failed \in SUBSET SyncFiles, ssh_failed \in SyncFiles \cup {"none"} :
          SyncMain(failed, ssh_failed)

SyncSpec == SyncInit /\ [][SyncNext]_vars

Next ==
    \/ \E p \in Procs : RejectArguments(p)
    \/ \E p \in Procs : Invoke(p)
    \/ \E p \in Procs : MakeTarget(p)
    \/ \E p \in Procs : MarkProcessing(p)
    \/ \E p \in Procs, copied \in SUBSET SourcePaths, rc \in RsyncCodes :
          \E marker \in RsyncMarkers(rc) : RunRsync(p, copied, rc, marker)
    \/ \E p \in Procs, listed \in BOOLEAN :
          \E first \in {Name(f) : f \in SourcePaths \cup StrayPaths} \cup {"none"} :
              ScanTarget(p, listed, first)
    \/ \E p \in Procs : Reconcile(p)
    \/ \E p \in Procs, ok \in BOOLEAN : CreateManifest(p, ok)
    \/ \E p \in Procs, log_ok \in BOOLEAN, md5_ok \in BOOLEAN :
          RelocateRemote(p, log_ok, md5_ok)
    \/ \E p \in Procs, log_ok \in BOOLEAN, md5_ok \in BOOLEAN :
          RelocateLocal(p, log_ok, md5_ok)
    \/ \E p \in Procs : FinalUpdate(p)

Spec == Init /\ [][Next]_vars

====
